---- MODULE Spec2Model ----
(***************************************************************************)
(* Request gateway of Econet_RAG (src/app.py): API-key gating, the         *)
(* session-scoped conversation id, and the mapping of handler outcomes to  *)
(* HTTP responses for POST /ask and POST /feedback.                        *)
(*                                                                         *)
(* Python values that may be None are records [t, v]: t = "none" for None  *)
(* and t = "str" for a string with contents v.                             *)
(***************************************************************************)
EXTENDS Integers, Sequences, FiniteSets, TLC

\* ------------------------------------------------------------ bounds
\* feedback values range over -MaxFeedback .. MaxFeedback
MaxFeedback == 2
\* the rag collaborator answers with one of MaxProfile answer profiles
MaxProfile == 2

\* ------------------------------------------------------------ values
None == [t |-> "none", v |-> ""]
Str(s) == [t |-> "str", v |-> s]

\* Python truthiness of an Optional[str], negated: `not x`
PyNot(x) == x.t = "none" \/ x.v = ""

Sessions == {"s1", "s2"}
Questions == {"What is X?"}
Feedbacks == (0 - MaxFeedback) .. MaxFeedback

\* the X-API-Key header of a request: absent, or present with a value
HeaderValues == {"", "your-api-key", "secret"}
Headers == {None} \cup {Str(k) : k \in HeaderValues}

\* the API_KEY environment variable: unset, or set to a value
EnvValues == {None, Str("secret"), Str("")}

\* exceptions, as values: kind is the Python class
Exc(kind, status, detail) == [kind |-> kind, status |-> status, detail |-> detail]
HTTPException(status, detail) == Exc("HTTPException", status, detail)
NoExc == Exc("", 0, "")

\* ------------------------------------------------------ collaborators
\* conversation ids the rag collaborator may return (id: string)
Ids == {"", "c1", "c2"}

\* rag(question) -> {id, answer, relevance, response_time, total_tokens, openai_cost}
AnswerData ==
    { [id |-> i,
       answer |-> IF k = 1 THEN "answer one" ELSE "answer two",
       relevance |-> IF k = 1 THEN "RELEVANT" ELSE "NON_RELEVANT",
       response_time |-> 100 + k,
       total_tokens |-> 10 * k,
       openai_cost |-> k] : i \in Ids, k \in 1 .. MaxProfile }
NoData == [id |-> "", answer |-> "", relevance |-> "", response_time |-> 0,
           total_tokens |-> 0, openai_cost |-> 0]

\* what a raising collaborator may raise
CollaboratorExcs == {Exc("Exception", 0, "connection refused"),
                     HTTPException(503, "upstream unavailable")}

\* rag either returns an answer result or raises
rag == { [raised |-> FALSE, exc |-> NoExc, data |-> d] : d \in AnswerData }
       \cup { [raised |-> TRUE, exc |-> e, data |-> NoData] : e \in CollaboratorExcs }

\* submit_feedback(conversation_id, score) -> {status, message}, or raises
FeedbackResults == {[status |-> "success", message |-> "Feedback saved"],
                    [status |-> "error", message |-> "X"]}
NoResult == [status |-> "", message |-> ""]
submit_feedback ==
    { [raised |-> FALSE, exc |-> NoExc, result |-> r] : r \in FeedbackResults }
    \cup { [raised |-> TRUE, exc |-> e, result |-> NoResult] : e \in CollaboratorExcs }

\* ------------------------------------------------------------- state
VARIABLES
    env_API_KEY,   \* the API_KEY environment variable
    session,       \* per client session: the value under key "conversation_id"
    request,       \* the request served last
    response,      \* its response: status and JSON body
    collab,        \* the collaborator calls it made
    log,           \* what it logged
    last_ask,      \* per session: conversation_id of its latest 200 /ask response
    replaced       \* per session: a 200 /ask has overwritten a different stored id

vars == <<env_API_KEY, session, request, response, collab, log, last_ask, replaced>>

\* ------------------------------------------------------- authentication
\* os.getenv(name, default)
getenv(env, default) == IF env = None THEN default ELSE env.v

\* APIKeyHeader(name="X-API-Key", auto_error=False): the header's value,
\* None when the header is missing or its value is empty
api_key_header(header) == IF PyNot(header) THEN None ELSE header

\* variant: a request without a key is refused (default deny)
get_api_key_DefaultDeny(api_key, env) ==
    api_key # None /\ api_key.v = getenv(env, "your-api-key")

\* get_api_key: TRUE when the key is accepted, FALSE when 401 is raised
get_api_key(api_key, env) ==
    api_key = None \/ api_key.v = getenv(env, "your-api-key")

InvalidApiKey == HTTPException(401, "Invalid API Key")

\* --------------------------------------------------------- responses
\* FastAPI's handler for HTTPException: status and {"detail": detail}
http_exception_response(exc) ==
    [status |-> exc.status, body |-> [detail |-> exc.detail]]
Ok(body) == [status |-> 200, body |-> body]

NoCalls == [rag |-> <<>>, sf |-> <<>>, exc |-> NoExc, result |-> NoResult,
            data |-> NoData]

\* ----------------------------------------------------------- /ask
\* variant: estimated_cost taken from total_tokens
AskBody_CostFromTokens(answer_data) ==
    [conversation_id |-> answer_data.id,
     answer |-> answer_data.answer,
     relevance |-> answer_data.relevance,
     response_time |-> answer_data.response_time,
     total_tokens |-> answer_data.total_tokens,
     estimated_cost |-> answer_data.total_tokens]

\* the body of the try block's return statement
AskBody(answer_data) ==
    [conversation_id |-> answer_data.id,
     answer |-> answer_data.answer,
     relevance |-> answer_data.relevance,
     response_time |-> answer_data.response_time,
     total_tokens |-> answer_data.total_tokens,
     estimated_cost |-> answer_data.openai_cost]

\* variant: HTTPExceptions re-raised as in /feedback
AskExcept_Reraise(e) ==
    IF e.kind = "HTTPException" THEN e
    ELSE HTTPException(500, "Error processing your question")

\* except Exception as e: every exception becomes the generic 500
AskExcept(e) == HTTPException(500, "Error processing your question")

\* variant: the id is stored only when the session holds none yet
StoreSession_KeepFirst(sval, answer_data) ==
    IF sval = None THEN Str(answer_data.id) ELSE sval

\* request.session["conversation_id"] = answer_data['id']
StoreSession(sval, answer_data) == Str(answer_data.id)

\* variant: the except block drops the session's conversation id
ask_question_ClearOnError(sval, question, out) ==
    IF out.raised
    THEN [session |-> None,
          response |-> http_exception_response(AskExcept(out.exc)),
          log |-> << <<"INFO", "Received question: ", question>>,
                     <<"ERROR", "Error processing question: ", out.exc.detail>> >>,
          collab |-> [NoCalls EXCEPT !.rag = <<question>>, !.exc = out.exc]]
    ELSE [session |-> StoreSession(sval, out.data),
          response |-> Ok(AskBody(out.data)),
          log |-> << <<"INFO", "Received question: ", question>>,
                     <<"INFO", "Generated answer for conversation ID: ", out.data.id>> >>,
          collab |-> [NoCalls EXCEPT !.rag = <<question>>, !.data = out.data]]

\* ask_question(request, question_request): the session value it leaves,
\* its response, its log and its collaborator calls
ask_question(sval, question, out) ==
    IF out.raised
    THEN [session |-> sval,
          response |-> http_exception_response(AskExcept(out.exc)),
          log |-> << <<"INFO", "Received question: ", question>>,
                     <<"ERROR", "Error processing question: ", out.exc.detail>> >>,
          collab |-> [NoCalls EXCEPT !.rag = <<question>>, !.exc = out.exc]]
    ELSE [session |-> StoreSession(sval, out.data),
          response |-> Ok(AskBody(out.data)),
          log |-> << <<"INFO", "Received question: ", question>>,
                     <<"INFO", "Generated answer for conversation ID: ", out.data.id>> >>,
          collab |-> [NoCalls EXCEPT !.rag = <<question>>, !.data = out.data]]

\* -------------------------------------------------------- /feedback
\* variant: the test without its `not`
NoConversation_Inverted(conversation_id) == ~PyNot(conversation_id)

\* if not conversation_id
NoConversation(conversation_id) == PyNot(conversation_id)

\* variant: a range test, which lets 0 through
ValidFeedback_Range(feedback) == feedback \in -1 .. 1

\* feedback_request.feedback in [-1, 1]
ValidFeedback(feedback) == feedback \in {-1, 1}

\* variant: no `except HTTPException: raise` before the catch-all
FeedbackExcept_CatchAll(e) == HTTPException(500, "Error processing your feedback")

\* except HTTPException: raise / except Exception as e: generic 500
FeedbackExcept(e) ==
    IF e.kind = "HTTPException" THEN e
    ELSE HTTPException(500, "Error processing your feedback")

FeedbackLog(e) ==
    IF e.kind = "HTTPException" THEN <<>>
    ELSE << <<"ERROR", "Error processing feedback: ", e.detail>> >>

\* variant: a reported failure answered with the generic detail
FeedbackResult_Generic(result) ==
    IF result.status = "success"
    THEN [raised |-> FALSE, exc |-> NoExc,
          body |-> [message |-> "Feedback received and saved successfully"]]
    ELSE [raised |-> TRUE, exc |-> HTTPException(500, "Error processing your feedback"),
          body |-> [message |-> ""]]

\* the branch on the collaborator's result
FeedbackResult(result) ==
    IF result.status = "success"
    THEN [raised |-> FALSE, exc |-> NoExc,
          body |-> [message |-> "Feedback received and saved successfully"]]
    ELSE [raised |-> TRUE, exc |-> HTTPException(500, result.message),
          body |-> [message |-> ""]]

\* process_feedback(request, feedback_request): its response, its log and
\* its collaborator calls; the session is only read
process_feedback(sval, feedback, out) ==
    LET conversation_id == sval
        received == << <<"INFO", "Received feedback for conversation ID: ",
                         conversation_id.v>> >>
    IN  IF NoConversation(conversation_id)
        THEN [response |-> http_exception_response(FeedbackExcept(
                               HTTPException(400, "No active conversation found"))),
              log |-> <<>>,
              collab |-> NoCalls]
        ELSE IF ~ValidFeedback(feedback)
        THEN [response |-> http_exception_response(FeedbackExcept(
                               HTTPException(400, "Invalid feedback value. Must be -1 or 1"))),
              log |-> received,
              collab |-> NoCalls]
        ELSE IF out.raised
        THEN [response |-> http_exception_response(FeedbackExcept(out.exc)),
              log |-> received \o FeedbackLog(out.exc),
              collab |-> [NoCalls EXCEPT !.sf = <<conversation_id.v, feedback>>,
                                         !.exc = out.exc]]
        ELSE LET r == FeedbackResult(out.result)
             IN  [response |-> IF r.raised
                               THEN http_exception_response(FeedbackExcept(r.exc))
                               ELSE Ok(r.body),
                  log |-> received,
                  collab |-> [NoCalls EXCEPT !.sf = <<conversation_id.v, feedback>>,
                                             !.result = out.result]]

\* ------------------------------------------------------- the machine
NoRequest == [endpoint |-> "", sid |-> "", header |-> None, question |-> "",
              feedback |-> 0]

\* startup_event: the database probe, logged only
startup_event(conn) ==
    IF conn = None
    THEN << <<"ERROR", "Failed to connect to the database. Please check your database configuration.", "">> >>
    ELSE << <<"INFO", "Successfully connected to the database.", "">> >>

Init ==
    /\ env_API_KEY \in EnvValues
    /\ session = [s \in Sessions |-> None]
    /\ request = NoRequest
    /\ response = [status |-> 0, body |-> [detail |-> ""]]
    /\ collab = NoCalls
    /\ \E conn \in {None, Str("conn")} : log = startup_event(conn)
    /\ last_ask = [s \in Sessions |-> None]
    /\ replaced = [s \in Sessions |-> FALSE]

\* POST /ask from session sid with the given X-API-Key header
Ask(sid, header, question, out) ==
    /\ request' = [NoRequest EXCEPT !.endpoint = "ask", !.sid = sid,
                                    !.header = header, !.question = question]
    /\ IF ~get_api_key(api_key_header(header), env_API_KEY)
       THEN /\ response' = http_exception_response(InvalidApiKey)
            /\ collab' = NoCalls
            /\ log' = <<>>
            /\ UNCHANGED <<session, last_ask, replaced>>
       ELSE LET r == ask_question(session[sid], question, out)
            IN  /\ response' = r.response
                /\ collab' = r.collab
                /\ log' = r.log
                /\ session' = [session EXCEPT ![sid] = r.session]
                /\ last_ask' = IF r.response.status = 200
                               THEN [last_ask EXCEPT ![sid] =
                                        Str(r.response.body.conversation_id)]
                               ELSE last_ask
                /\ replaced' = IF r.response.status = 200
                                  /\ last_ask[sid] \notin
                                       {None, Str(r.response.body.conversation_id)}
                               THEN [replaced EXCEPT ![sid] = TRUE]
                               ELSE replaced
    /\ UNCHANGED env_API_KEY

\* POST /feedback from session sid with the given X-API-Key header
Feedback(sid, header, feedback, out) ==
    /\ request' = [NoRequest EXCEPT !.endpoint = "feedback", !.sid = sid,
                                    !.header = header, !.feedback = feedback]
    /\ IF ~get_api_key(api_key_header(header), env_API_KEY)
       THEN /\ response' = http_exception_response(InvalidApiKey)
            /\ collab' = NoCalls
            /\ log' = <<>>
       ELSE LET r == process_feedback(session[sid], feedback, out)
            IN  /\ response' = r.response
                /\ collab' = r.collab
                /\ log' = r.log
    /\ UNCHANGED <<env_API_KEY, session, last_ask, replaced>>

Next ==
    \/ \E sid \in Sessions, header \in Headers, question \in Questions, out \in rag :
           Ask(sid, header, question, out)
    \/ \E sid \in Sessions, header \in Headers, feedback \in Feedbacks,
          out \in submit_feedback :
           Feedback(sid, header, feedback, out)

Spec == Init /\ [][Next]_vars

\* ------------------------------------------------------ observations
IsAsk == request.endpoint = "ask"
IsFeedback == request.endpoint = "feedback"
HeaderPresent == request.header.t = "str"
ExpectedKey == getenv(env_API_KEY, "your-api-key")
\* the request reached its handler: get_api_key raised nothing
Authenticated == get_api_key(api_key_header(request.header), env_API_KEY)
ErrorIs(status, detail) ==
    response.status = status /\ response.body = [detail |-> detail]
SubmitInvoked == collab.sf # <<>>
RagInvoked == collab.rag # <<>>
\* the session of the request served last
Sess == session[request.sid]
\* the session holds a conversation id /feedback takes for an active one
HoldsId(sval) == sval.t = "str" /\ sval.v # ""
\* /feedback from this session is not answered "No active conversation found"
FeedbackAccepts(sval) ==
    \A fb \in Feedbacks, out \in submit_feedback :
        process_feedback(sval, fb, out).response.body
            # [detail |-> "No active conversation found"]

\* ------------------------------------------------------------ claims

\* C1: in a session where no /ask has stored a conversation id, an
\* authenticated /feedback is answered 400 "No active conversation found"
\* whatever the feedback value, and submit_feedback is not invoked.
C1_NoColdFeedback ==
    (IsFeedback /\ Authenticated /\ last_ask[request.sid] = None)
        => (ErrorIs(400, "No active conversation found") /\ ~SubmitInvoked)
C1_Witness ==
    /\ IsFeedback /\ Authenticated /\ last_ask[request.sid] = None
    /\ request.feedback = 1
    /\ HoldsId(session[IF request.sid = "s1" THEN "s2" ELSE "s1"])
    /\ response.status = 400

\* C2: the conversation id /feedback passes to submit_feedback is the id in
\* the response of the latest 200 /ask of the same session; a later 200 /ask
\* overwrites the earlier id.
C2_FeedbackSeesLatestAsk ==
    SubmitInvoked =>
        /\ last_ask[request.sid].t = "str"
        /\ collab.sf[1] = last_ask[request.sid].v
C2_Witness ==
    /\ SubmitInvoked /\ replaced[request.sid]
    /\ collab.sf[1] = "c2"
    /\ session[IF request.sid = "s1" THEN "s2" ELSE "s1"] = Str("c1")

\* C3 as stated: a request is rejected 401 "Invalid API Key" exactly when
\* an X-API-Key header is present and its value differs from the expected key.
C3_Original ==
    (IsAsk \/ IsFeedback) =>
        (ErrorIs(401, "Invalid API Key")
            <=> (HeaderPresent /\ request.header.v # ExpectedKey))
\* C3 amended: a request is rejected 401 "Invalid API Key" exactly when an
\* X-API-Key header is present with a non-empty value that differs from the
\* expected key; an absent header, an empty one and a matching one pass, and
\* the handler runs.
C3_RejectsNonEmptyMismatch ==
    (IsAsk \/ IsFeedback) =>
        /\ ErrorIs(401, "Invalid API Key")
             <=> (HeaderPresent /\ request.header.v # ""
                    /\ request.header.v # ExpectedKey)
        /\ (~HeaderPresent \/ request.header.v \in {"", ExpectedKey})
             => (response.status # 401 /\ (IsAsk => RagInvoked))
C3_Witness ==
    /\ IsFeedback /\ HoldsId(Sess) /\ request.feedback = 1
    /\ request.header = Str("secret") /\ ExpectedKey = "your-api-key"
    /\ ErrorIs(401, "Invalid API Key")

C5_AskFailureIsGeneric ==
    (IsAsk /\ Authenticated /\ collab.exc # NoExc) =>
        /\ ErrorIs(500, "Error processing your question")
        /\ response.body.detail # collab.exc.detail
        /\ log[Len(log)] = <<"ERROR", "Error processing question: ", collab.exc.detail>>
C5_Witness ==
    /\ IsAsk /\ Authenticated /\ collab.exc.kind = "HTTPException"
    /\ response.status = 500

\* C6: when submit_feedback returns a result, the response is 200
\* "Feedback received and saved successfully" exactly when the result's
\* status is "success"; otherwise it is 500 with the result's message.
C6_FeedbackResultMapping ==
    (IsFeedback /\ SubmitInvoked /\ collab.result # NoResult) =>
        /\ (response = Ok([message |-> "Feedback received and saved successfully"]))
             <=> (collab.result.status = "success")
        /\ collab.result.status # "success"
             => ErrorIs(500, collab.result.message)
C6_Witness ==
    /\ IsFeedback /\ SubmitInvoked
    /\ collab.result = [status |-> "error", message |-> "X"]
    /\ ErrorIs(500, "X")

\* C7: a 200 /ask response has exactly the six keys, conversation_id being
\* the result's id, estimated_cost its openai_cost, the others unchanged.
C7_AskBodyVerbatim ==
    (IsAsk /\ response.status = 200) =>
        /\ DOMAIN response.body = {"conversation_id", "answer", "relevance",
                                   "response_time", "total_tokens", "estimated_cost"}
        /\ response.body.conversation_id = collab.data.id
        /\ response.body.estimated_cost = collab.data.openai_cost
        /\ response.body.answer = collab.data.answer
        /\ response.body.relevance = collab.data.relevance
        /\ response.body.response_time = collab.data.response_time
        /\ response.body.total_tokens = collab.data.total_tokens
C7_Witness ==
    /\ IsAsk /\ response.status = 200
    /\ collab.data \in AnswerData
    /\ response.body.estimated_cost = 2 /\ response.body.total_tokens = 20

\* the two validation failures of /feedback reach the client as raised
C8_ValidationPropagates ==
    (IsFeedback /\ Authenticated) =>
        /\ ~HoldsId(Sess) => ErrorIs(400, "No active conversation found")
        /\ (HoldsId(Sess) /\ request.feedback \notin {-1, 1})
             => ErrorIs(400, "Invalid feedback value. Must be -1 or 1")
\* an exception was raised in the /feedback handler other than a validation 400
C8_OtherExceptionRaised ==
    /\ IsFeedback /\ SubmitInvoked
    /\ (collab.exc # NoExc \/ collab.result.status # "success")
\* C8 as stated: validation 400s reach the client unchanged, and every other
\* exception raised in the handler is answered 500 "Error processing your
\* feedback".
C8_Original ==
    /\ C8_ValidationPropagates
    /\ C8_OtherExceptionRaised => ErrorIs(500, "Error processing your feedback")
\* C8 amended: validation 400s reach the client unchanged; every exception
\* raised in the handler that is not an HTTPException is answered 500 "Error
\* processing your feedback"; an HTTPException (the handler's own 500 for a
\* reported non-success result, or one submit_feedback raises) is re-raised
\* unchanged.
C8_OnlyNonHttpDowngraded ==
    /\ C8_ValidationPropagates
    /\ (IsFeedback /\ SubmitInvoked) =>
        /\ (collab.exc # NoExc /\ collab.exc.kind # "HTTPException")
             => ErrorIs(500, "Error processing your feedback")
        /\ collab.exc.kind = "HTTPException"
             => ErrorIs(collab.exc.status, collab.exc.detail)
        /\ (collab.exc = NoExc /\ collab.result.status # "success")
             => ErrorIs(500, collab.result.message)
C8_Witness ==
    /\ IsFeedback /\ SubmitInvoked
    /\ collab.exc.kind = "Exception"
    /\ ErrorIs(500, "Error processing your feedback")

\* C9: once a session holds a conversation id that /feedback accepts as an
\* active conversation, it does so after every further request.
C9_ActiveStaysActive ==
    [][\A s \in Sessions :
          FeedbackAccepts(session[s]) => FeedbackAccepts(session'[s])]_vars

\* C10: the session's conversation_id changes only in an /ask that responds
\* 200: a /feedback, a 401 and a 500 /ask leave every session as it was.
C10_OnlyAsk200Writes ==
    [][/\ (session' # session) => (request'.endpoint = "ask" /\ response'.status = 200)
       /\ (request'.endpoint = "feedback" \/ response'.status \in {401, 500})
            => session' = session]_vars
C10_Witness ==
    /\ IsAsk /\ response.status = 500 /\ RagInvoked
    /\ Sess = Str("c1") /\ replaced[request.sid]

====
